---- MODULE Spec2Model ----
(***************************************************************************)
(* Forward MVCC scanner of storage/mvcc/reader/forward_scanner.rs.         *)
(*                                                                         *)
(* The scanner walks a lock stream (CF_LOCK, one record per user key) and  *)
(* a write stream (CF_WRITE, sorted by user key ascending and commit_ts    *)
(* descending) with two forward cursors, and loads out-of-line values from *)
(* a default stream (CF_DEFAULT).  The state of the model is the scanner   *)
(* object (its fields, the three cursors and the snapshot it owns) plus    *)
(* the observable history of the calls made on it.                         *)
(***************************************************************************)
EXTENDS Integers, Sequences, FiniteSets, TLC

\* ---------------------------------------------------------------- bounds
\* The engine publishes SEEK_BOUND (storage::engine::SEEK_BOUND, 8 in the
\* engine); the scanner is parametric in it and the model instantiates it
\* small, so that keys with more than SEEK_BOUND versions fit the bounds.
SEEK_BOUND == 2
\* user keys are 1..NumKeys, commit timestamps 0..MaxTs
NumKeys == 2
MaxTs == 2
\* records in the write stream / lock stream of a snapshot
MaxWrites == 3
MaxLocks == 1
\* calls made on one scanner
MaxCalls == 4
MaxTakes == 2

Keys == 1..NumKeys
Timestamps == 0..MaxTs

\* Option<T>: None is the empty sequence, Some(x) the one-element sequence.
None == << >>
Some(x) == << x >>
\* the empty byte sequence (vec![])
EmptyValue == << >>

Min(S) == CHOOSE x \in S : \A y \in S : x <= y

\* ------------------------------------------------------------ statistics
ZeroCF == [seek |-> 0, next |-> 0, processed |-> 0]
ZeroStatistics == [lock |-> ZeroCF, write |-> ZeroCF, data |-> ZeroCF]
CFNames == {"lock", "write", "data"}
CounterNames == {"seek", "next", "processed"}

\* ------------------------------------------------------- snapshot records
\* A write record: key user_key . commit_ts, value {write_type, start_ts,
\* short_value}; malformed records make Write::parse fail.
WriteTypes == {"Put", "Delete", "Lock", "Rollback"}

\* The value bytes a Put of `key` committed at `commit_ts` carries.
ValueOf(key, commit_ts) == << key, commit_ts >>

\* Order of the write stream: user key ascending, larger commit_ts first.
WriteLess(a, b) == a.key < b.key \/ (a.key = b.key /\ a.commit_ts > b.commit_ts)

\* ------------------------------------------------------------- cursors
\* A cursor is built over one column family with a range [lower, upper);
\* pos is its position in the records it can see: 1..Len is valid, 0 is
\* "not positioned yet" and Len+1 is "past the end".
NewCursor(lower, upper) == [lower |-> lower, upper |-> upper, pos |-> 0]

InRange(k, c) ==
    /\ (c.lower = None \/ k >= c.lower[1])
    /\ (c.upper = None \/ k < c.upper[1])

View(cf, c) == SelectSeq(cf, LAMBDA r : InRange(r.key, c))

\* The first of the positions I of `view`, Len+1 if there is none.
FirstPos(view, I) == IF I = {} THEN Len(view) + 1 ELSE Min(I)

\* Where seek(bound) lands: the first record whose key is >= the user key.
SeekKeyPos(recs, k) == FirstPos(recs, {i \in 1..Len(recs) : recs[i].key >= k})

Bump(s, cf, counter) == [s EXCEPT !.statistics[cf][counter] = @ + 1]

WriteRecs(s) == View(s.snapshot.write, s.write_cursor)
LockRecs(s) == View(s.snapshot.lock, s.lock_cursor)

write_valid(s) == s.write_cursor.pos \in 1..Len(WriteRecs(s))
lock_valid(s) == s.lock_cursor.pos \in 1..Len(LockRecs(s))
write_rec(s) == WriteRecs(s)[s.write_cursor.pos]
lock_rec(s) == LockRecs(s)[s.lock_cursor.pos]

write_next(s) == Bump([s EXCEPT !.write_cursor.pos = @ + 1], "write", "next")
lock_next(s) == Bump([s EXCEPT !.lock_cursor.pos = @ + 1], "lock", "next")

write_seek_key(s, k) ==
    Bump([s EXCEPT !.write_cursor.pos = SeekKeyPos(WriteRecs(s), k)], "write", "seek")
lock_seek_key(s, k) ==
    Bump([s EXCEPT !.lock_cursor.pos = SeekKeyPos(LockRecs(s), k)], "lock", "seek")

\* The first record >= user_key . ts: larger timestamps sort first, so within
\* user_key this is the first record with commit_ts <= ts.
SeekPos(recs, k, ts) ==
    FirstPos(recs, {i \in 1..Len(recs) :
                       recs[i].key > k \/ (recs[i].key = k /\ recs[i].commit_ts <= ts)})

write_seek(s, k, ts) ==
    Bump([s EXCEPT !.write_cursor.pos = SeekPos(WriteRecs(s), k, ts)], "write", "seek")

\* internal_seek: the same move, not counted as a seek.
write_internal_seek(s, k, ts) ==
    [s EXCEPT !.write_cursor.pos = SeekPos(WriteRecs(s), k, ts)]

\* --------------------------------------------------------- default stream
DefaultRecs(s) == View(s.snapshot.default, s.default_cursor[1])

default_seek(s, k, ts) ==
    Bump([s EXCEPT !.default_cursor[1].pos = SeekPos(DefaultRecs(s), k, ts)],
         "data", "seek")
default_next(s) ==
    Bump([s EXCEPT !.default_cursor[1].pos = @ + 1], "data", "next")

\* near_seek of the default cursor towards user_key . start_ts: up to
\* SEEK_BOUND next() steps, then seek().  DefaultRecs is ordered like the
\* write stream, start_ts in the place of commit_ts.
RECURSIVE default_near_seek(_, _, _, _)
default_near_seek(s, k, ts, i) ==
    LET recs == DefaultRecs(s)
        pos == s.default_cursor[1].pos
        target == SeekPos(recs, k, ts)
    IN  IF pos \notin 1..Len(recs) \/ pos > target THEN default_seek(s, k, ts)
        ELSE IF pos = target THEN s
        ELSE IF i = SEEK_BOUND THEN default_seek(s, k, ts)
        ELSE default_near_seek(default_next(s), k, ts, i + 1)

\* ------------------------------------------------------------- results
\* Result<Option<Value>> inside the scanner
OkNone == [kind |-> "None", value |-> EmptyValue, err |-> ""]
OkSome(v) == [kind |-> "Some", value |-> v, err |-> ""]
Err(e) == [kind |-> "Err", value |-> EmptyValue, err |-> e]

\* What a read_next call gives its caller: Ok(Some((key, value))), Ok(None),
\* Err(e) for user key `key`, or a panic.
RetSome(k, v) == [tag |-> "Some", key |-> k, value |-> v, err |-> ""]
RetNone == [tag |-> "None", key |-> 0, value |-> EmptyValue, err |-> ""]
RetErr(k, e) == [tag |-> "Err", key |-> k, value |-> EmptyValue, err |-> e]
RetPanic == [tag |-> "Panic", key |-> 0, value |-> EmptyValue, err |-> "unwrap on None"]

\* near_load_data_by_write: the default cursor must end on exactly
\* user_key . write.start_ts; an absent record is a corruption error.
near_load_data_by_write(s, user_key, write) ==
    LET s1 == default_near_seek(s, user_key, write.start_ts, 0)
        recs == DefaultRecs(s1)
        pos == s1.default_cursor[1].pos
    IN  IF /\ pos \in 1..Len(recs)
           /\ recs[pos].key = user_key
           /\ recs[pos].commit_ts = write.start_ts
        THEN [s |-> Bump(s1, "data", "processed"), r |-> OkSome(recs[pos].value)]
        ELSE [s |-> s1, r |-> Err("DefaultNotFound")]

\* check_lock(user_key, ts, lock): the lock record carries what the check
\* yields for it (Locked, NotLocked, or Ignored with the timestamp to read at).
check_lock(user_key, ts, lock) == [outcome |-> lock.check, ts |-> lock.ts]

\* ------------------------------------------------------------ the scanner
\* ForwardScannerBuilder::build
build(snapshot, ts, isolation_level, omit_value, lower_bound, upper_bound) ==
    [snapshot |-> snapshot,
     omit_value |-> omit_value,
     isolation_level |-> isolation_level,
     lower_bound |-> lower_bound,
     upper_bound |-> upper_bound,
     ts |-> ts,
     lock_cursor |-> NewCursor(lower_bound, upper_bound),
     write_cursor |-> NewCursor(lower_bound, upper_bound),
     default_cursor |-> None,
     is_started |-> FALSE,
     statistics |-> ZeroStatistics]

\* ensure_default_cursor that builds a cursor on every call.
ensure_default_cursor_rebuild(s) ==
    [s EXCEPT !.default_cursor = Some(NewCursor(s.lower_bound, s.upper_bound)),
              !.lower_bound = None,
              !.upper_bound = None]

\* ForwardScanner::ensure_default_cursor
ensure_default_cursor(s) ==
    IF s.default_cursor # None THEN s
    ELSE [s EXCEPT !.default_cursor = Some(NewCursor(s.lower_bound, s.upper_bound)),
                   !.lower_bound = None,
                   !.upper_bound = None]

\* load_data_by_write with the omit_value test made only where the default
\* stream would be read: an inline value is returned although omit_value is set.
load_data_by_write_inline_first(s, write, user_key) ==
    IF write.short_value # None THEN [s |-> s, r |-> OkSome(write.short_value[1])]
    ELSE IF s.omit_value THEN [s |-> s, r |-> OkSome(EmptyValue)]
    ELSE near_load_data_by_write(ensure_default_cursor(s), user_key, write)

\* ForwardScanner::load_data_by_write
load_data_by_write(s, write, user_key) ==
    IF s.omit_value THEN [s |-> s, r |-> OkSome(EmptyValue)]
    ELSE IF write.short_value # None THEN [s |-> s, r |-> OkSome(write.short_value[1])]
    ELSE near_load_data_by_write(ensure_default_cursor(s), user_key, write)

\* ForwardScanner::move_write_cursor_to_next_user_key, iteration i of its loop
RECURSIVE move_write_cursor_loop(_, _, _)
move_write_cursor_loop(s, current_user_key, i) ==
    IF i = SEEK_BOUND THEN write_internal_seek(s, current_user_key, 0)
    ELSE LET s1 == IF i > 0 THEN write_next(s) ELSE s
         IN  IF ~write_valid(s1) THEN s1
             ELSE IF write_rec(s1).key # current_user_key THEN s1
             ELSE move_write_cursor_loop(s1, current_user_key, i + 1)

move_write_cursor_to_next_user_key(s, current_user_key) ==
    move_write_cursor_loop(s, current_user_key, 0)

\* ForwardScanner::get, the bounded next() phase: iteration i of `for i in
\* 0..SEEK_BOUND`.  st is "found" (break), "seek" (loop ran out), "end" or
\* "met" (the two early returns).
RECURSIVE get_next_phase(_, _, _, _)
get_next_phase(s, user_key, ts, i) ==
    IF i = SEEK_BOUND THEN [s |-> s, st |-> "seek"]
    ELSE LET s1 == IF i > 0 THEN write_next(s) ELSE s
         IN  IF i > 0 /\ ~write_valid(s1) THEN [s |-> s1, st |-> "end"]
             ELSE IF write_rec(s1).key # user_key THEN [s |-> s1, st |-> "met"]
             ELSE IF write_rec(s1).commit_ts <= ts THEN [s |-> s1, st |-> "found"]
             ELSE get_next_phase(s1, user_key, ts, i + 1)

\* ForwardScanner::get, the final loop over Lock and Rollback records
RECURSIVE get_version_loop(_, _)
get_version_loop(s, user_key) ==
    LET write == write_rec(s)
    IN  IF write.malformed THEN [s |-> s, r |-> Err("BadWrite"), met |-> FALSE]
        ELSE LET s1 == Bump(s, "write", "processed")
             IN  IF write.write_type = "Put"
                 THEN LET l == load_data_by_write(s1, write, user_key)
                      IN  [s |-> l.s, r |-> l.r, met |-> FALSE]
                 ELSE IF write.write_type = "Delete"
                 THEN [s |-> s1, r |-> OkNone, met |-> FALSE]
                 ELSE LET s2 == write_next(s1)
                      IN  IF ~write_valid(s2)
                          THEN [s |-> s2, r |-> OkNone, met |-> FALSE]
                          ELSE IF write_rec(s2).key # user_key
                          THEN [s |-> s2, r |-> OkNone, met |-> TRUE]
                          ELSE get_version_loop(s2, user_key)

\* ForwardScanner::get after the bounded next() phase ended in p: the seek,
\* then the final loop.  `landed`, `nexts1` and `called` are not in the code:
\* the position of the write cursor when the final loop starts (0 when get
\* returns before it), the next() steps of the bounded phase, and that get ran.
get_none(s1, met, nexts1) ==
    [s |-> s1, r |-> OkNone, met |-> met, landed |-> 0, nexts1 |-> nexts1,
     called |-> TRUE]

get_resolve(s1, user_key, nexts1, v) ==
    [s |-> v.s, r |-> v.r, met |-> v.met, landed |-> s1.write_cursor.pos,
     nexts1 |-> nexts1, called |-> TRUE]

get_seek_phase(s2, user_key, nexts1) ==
    IF ~write_valid(s2) THEN get_none(s2, FALSE, nexts1)
    ELSE IF write_rec(s2).key # user_key THEN get_none(s2, TRUE, nexts1)
    ELSE get_resolve(s2, user_key, nexts1, get_version_loop(s2, user_key))

get_after_next_phase(s, user_key, ts, p, nexts1) ==
    CASE p.st = "end" -> get_none(p.s, FALSE, nexts1)
      [] p.st = "met" -> get_none(p.s, TRUE, nexts1)
      [] p.st = "found" ->
            get_resolve(p.s, user_key, nexts1, get_version_loop(p.s, user_key))
      [] p.st = "seek" -> get_seek_phase(write_seek(p.s, user_key, ts), user_key, nexts1)

get_counted(s, user_key, ts, p) ==
    get_after_next_phase(s, user_key, ts, p,
                         p.s.statistics.write.next - s.statistics.write.next)

\* ForwardScanner::get
get(s, user_key, ts) == get_counted(s, user_key, ts, get_next_phase(s, user_key, ts, 0))

\* initial_seek that takes an invalid write cursor for "not started": an
\* exhausted scanner seeks again.
initial_seek_when_invalid(s) ==
    IF s.is_started /\ write_valid(s) THEN [s |-> s, panic |-> FALSE]
    ELSE IF s.lower_bound = None THEN [s |-> s, panic |-> TRUE]
    ELSE LET s1 == write_seek_key(s, s.lower_bound[1])
             s2 == lock_seek_key(s1, s.lower_bound[1])
         IN  [s |-> [s2 EXCEPT !.is_started = TRUE], panic |-> FALSE]

\* ForwardScanner::read_next, the initial seek of the first call.  Unwrapping
\* a lower_bound of None panics before either cursor is touched.
initial_seek(s) ==
    IF s.is_started THEN [s |-> s, panic |-> FALSE]
    ELSE IF s.lower_bound = None THEN [s |-> s, panic |-> TRUE]
    ELSE LET s1 == write_seek_key(s, s.lower_bound[1])
             s2 == lock_seek_key(s1, s.lower_bound[1])
         IN  [s |-> [s2 EXCEPT !.is_started = TRUE], panic |-> FALSE]

\* select_current_user_key that takes equal keys for a write without a lock.
select_current_user_key_no_equal(s) ==
    LET sel(k, w, l) == [done |-> FALSE, key |-> k, has_write |-> w, has_lock |-> l]
    IN  IF ~write_valid(s) /\ ~lock_valid(s)
        THEN [done |-> TRUE, key |-> 0, has_write |-> FALSE, has_lock |-> FALSE]
        ELSE IF ~write_valid(s) THEN sel(lock_rec(s).key, FALSE, TRUE)
        ELSE IF ~lock_valid(s) THEN sel(write_rec(s).key, TRUE, FALSE)
        ELSE IF write_rec(s).key <= lock_rec(s).key
        THEN sel(write_rec(s).key, TRUE, FALSE)
        ELSE sel(lock_rec(s).key, FALSE, TRUE)

\* ForwardScanner::read_next, (current_user_key, has_write, has_lock)
select_current_user_key(s) ==
    LET sel(k, w, l) == [done |-> FALSE, key |-> k, has_write |-> w, has_lock |-> l]
    IN  IF ~write_valid(s) /\ ~lock_valid(s)
        THEN [done |-> TRUE, key |-> 0, has_write |-> FALSE, has_lock |-> FALSE]
        ELSE IF ~write_valid(s) THEN sel(lock_rec(s).key, FALSE, TRUE)
        ELSE IF ~lock_valid(s) THEN sel(write_rec(s).key, TRUE, FALSE)
        ELSE LET write_user_key == write_rec(s).key
                 lk == lock_rec(s).key
             IN  IF write_user_key < lk THEN sel(write_user_key, TRUE, FALSE)
                 ELSE IF write_user_key > lk THEN sel(lk, FALSE, TRUE)
                 ELSE sel(lk, TRUE, TRUE)

\* handle_lock that consults the lock whatever the isolation level is.
handle_lock_any_level(s, current_user_key) ==
    LET lock == lock_rec(s)
    IN  IF lock.malformed
        THEN [s |-> s, result |-> Err("BadLock"), get_ts |-> s.ts, early |-> TRUE]
        ELSE LET c == check_lock(current_user_key, s.ts, lock)
             IN  [s |-> lock_next(s),
                  result |-> IF c.outcome = "Locked" THEN Err("KeyIsLocked") ELSE OkNone,
                  get_ts |-> IF c.outcome = "Ignored" THEN c.ts ELSE s.ts,
                  early |-> FALSE]

\* handle_lock that leaves the lock cursor on a lock that blocks the read.
handle_lock_stay_when_locked(s, current_user_key) ==
    IF s.isolation_level = "SI"
    THEN LET lock == lock_rec(s)
         IN  IF lock.malformed
             THEN [s |-> s, result |-> Err("BadLock"), get_ts |-> s.ts, early |-> TRUE]
             ELSE LET c == check_lock(current_user_key, s.ts, lock)
                  IN  [s |-> IF c.outcome = "Locked" THEN s ELSE lock_next(s),
                       result |-> IF c.outcome = "Locked" THEN Err("KeyIsLocked")
                                  ELSE OkNone,
                       get_ts |-> IF c.outcome = "Ignored" THEN c.ts ELSE s.ts,
                       early |-> FALSE]
    ELSE [s |-> lock_next(s), result |-> OkNone, get_ts |-> s.ts, early |-> FALSE]

\* ForwardScanner::read_next, `if has_lock { .. }`.  early: Lock::parse failed
\* and `?` returned before the lock cursor moved.
handle_lock(s, current_user_key) ==
    IF s.isolation_level = "SI"
    THEN LET lock == lock_rec(s)
         IN  IF lock.malformed
             THEN [s |-> s, result |-> Err("BadLock"), get_ts |-> s.ts, early |-> TRUE]
             ELSE LET c == check_lock(current_user_key, s.ts, lock)
                  IN  [s |-> lock_next(s),
                       result |-> IF c.outcome = "Locked" THEN Err("KeyIsLocked")
                                  ELSE OkNone,
                       get_ts |-> IF c.outcome = "Ignored" THEN c.ts ELSE s.ts,
                       early |-> FALSE]
    ELSE [s |-> lock_next(s), result |-> OkNone, get_ts |-> s.ts, early |-> FALSE]

\* One record of the log a read_next call leaves (not in the code): what one
\* iteration of its loop selected and where it moved the cursors.
Iteration(s0, sel, lk, g, s1) ==
    [key |-> sel.key, has_write |-> sel.has_write, has_lock |-> sel.has_lock,
     get_called |-> g.called, get_ts |-> lk.get_ts,
     early |-> lk.early, moved |-> ~lk.early /\ sel.has_write /\ ~g.met,
     wpos0 |-> s0.write_cursor.pos, lpos0 |-> s0.lock_cursor.pos,
     wpos1 |-> s1.write_cursor.pos, lpos1 |-> s1.lock_cursor.pos,
     landed |-> g.landed,
     get_seeks |-> g.s.statistics.write.seek - lk.s.statistics.write.seek,
     get_nexts1 |-> g.nexts1,
     processed |-> s1.statistics.write.processed - s0.statistics.write.processed,
     result |-> g.r,
     default0 |-> s0.default_cursor, default1 |-> s1.default_cursor]

RECURSIVE reconcile(_, _)

\* ForwardScanner::read_next, the end of one iteration: `if let Some(v) =
\* result?`, with the write cursor moved to s1
iteration_result(s, log, sel, lk, g, s1) ==
    IF g.r.kind = "Some"
    THEN [s |-> s1, res |-> RetSome(sel.key, g.r.value),
          log |-> Append(log, Iteration(s, sel, lk, g, s1))]
    ELSE IF g.r.kind = "Err"
    THEN [s |-> s1, res |-> RetErr(sel.key, g.r.err),
          log |-> Append(log, Iteration(s, sel, lk, g, s1))]
    ELSE reconcile(s1, Append(log, Iteration(s, sel, lk, g, s1)))

\* ForwardScanner::read_next, `if !met_next_user_key { .. }` after get
\* returned g (or was not called)
handle_write_move(s, log, sel, lk, g) ==
    iteration_result(s, log, sel, lk, g,
        IF sel.has_write /\ ~g.met
        THEN move_write_cursor_to_next_user_key(g.s, sel.key)
        ELSE g.s)

\* ForwardScanner::read_next, `if has_write { if result.is_ok() { .. } .. }`
\* after the lock was handled with outcome lk
handle_write(s, log, sel, lk) ==
    IF lk.early
    THEN [s |-> lk.s, res |-> RetErr(sel.key, lk.result.err),
          log |-> Append(log, Iteration(s, sel, lk,
                      [s |-> lk.s, r |-> lk.result, met |-> FALSE, landed |-> 0,
                       nexts1 |-> 0, called |-> FALSE], lk.s))]
    ELSE handle_write_move(s, log, sel, lk,
            IF sel.has_write /\ lk.result.kind # "Err"
            THEN get(lk.s, sel.key, lk.get_ts)
            ELSE [s |-> lk.s, r |-> lk.result, met |-> FALSE, landed |-> 0,
                  nexts1 |-> 0, called |-> FALSE])

\* ForwardScanner::read_next, one iteration for the selection sel
iteration(s, log, sel) ==
    IF sel.done THEN [s |-> s, res |-> RetNone, log |-> log]
    ELSE handle_write(s, log, sel,
            IF sel.has_lock THEN handle_lock(s, sel.key)
            ELSE [s |-> s, result |-> OkNone, get_ts |-> s.ts, early |-> FALSE])

\* ForwardScanner::read_next, the loop
reconcile(s, log) == iteration(s, log, select_current_user_key(s))

\* ForwardScanner::read_next
read_next(s) ==
    LET i == initial_seek(s)
    IN  IF i.panic THEN [s |-> s, res |-> RetPanic, log |-> << >>]
        ELSE reconcile(i.s, << >>)

\* take_statistics that hands out a copy and resets nothing.
take_statistics_copy(s) == [s |-> s, ret |-> s.statistics]

\* ForwardScanner::take_statistics
take_statistics(s) ==
    [s |-> [s EXCEPT !.statistics = ZeroStatistics], ret |-> s.statistics]

\* ------------------------------------------------------------ snapshots
\* What the snapshots of the model hold.  A Put carries its value inline
\* ("Put") or in the default stream ("PutLong"); "PutLost" is a Put whose
\* default-stream record is missing and "Malformed" a record that
\* Write::parse rejects.  A transaction is identified with its commit_ts.
MkWrite(k, c, kind) ==
    [key |-> k, commit_ts |-> c, start_ts |-> c,
     write_type |-> IF kind \in {"Put", "PutLong", "PutLost", "Malformed"} THEN "Put"
                    ELSE kind,
     short_value |-> IF kind = "Put" THEN Some(ValueOf(k, c)) ELSE None,
     in_default |-> kind = "PutLong",
     malformed |-> kind = "Malformed"]

MkDefault(w) == [key |-> w.key, commit_ts |-> w.start_ts, value |-> ValueOf(w.key, w.start_ts)]

MkLock(k, kind, t) ==
    [key |-> k, check |-> kind, ts |-> t, malformed |-> kind = "Malformed"]

RECURSIVE SortRecs(_)
SortRecs(S) ==
    IF S = {} THEN << >>
    ELSE LET m == CHOOSE x \in S : \A y \in S \ {x} : WriteLess(x, y)
         IN  << m >> \o SortRecs(S \ {m})

Slots == Keys \X Timestamps

\* the write stream made of the slots S, slot sl holding a record of kind f[sl]
WriteStream(S, f) == SortRecs({MkWrite(sl[1], sl[2], f[sl]) : sl \in S})

LockChoices(kinds) ==
    {<< kind, 0 >> : kind \in kinds \ {"Ignored"}} \cup
    {<< "Ignored", t >> : t \in IF "Ignored" \in kinds THEN Timestamps ELSE {}}

\* the lock stream with a lock on the keys of K (at most one record per user
\* key), the one of k being g[k]
LockStream(K, g) == SortRecs({MkLock(k, g[k][1], g[k][2]) : k \in K})

DefaultOf(write) ==
    SortRecs({MkDefault(write[i]) : i \in {j \in 1..Len(write) : write[j].in_default}})

Snapshot(write, lock) == [write |-> write, lock |-> lock, default |-> DefaultOf(write)]

\* ------------------------------------------------------------ the state
VARIABLES
    scanner,    \* the ForwardScanner: its fields, cursors and snapshot
    hist,       \* what the read_next calls made so far returned, in order
    log,        \* the iterations of the latest read_next call
    taken,      \* what take_statistics returned: the latest, their sum, how many
    total       \* every counter, accumulated over the read_next calls since build

vars == << scanner, hist, log, taken, total >>

AddCF(x, y) ==
    [seek |-> x.seek + y.seek, next |-> x.next + y.next,
     processed |-> x.processed + y.processed]
SubCF(x, y) ==
    [seek |-> x.seek - y.seek, next |-> x.next - y.next,
     processed |-> x.processed - y.processed]
AddStats(a, b) ==
    [lock |-> AddCF(a.lock, b.lock), write |-> AddCF(a.write, b.write),
     data |-> AddCF(a.data, b.data)]
SubStats(a, b) ==
    [lock |-> SubCF(a.lock, b.lock), write |-> SubCF(a.write, b.write),
     data |-> SubCF(a.data, b.data)]

AllWriteKinds == {"Put", "PutLong", "PutLost", "Delete", "Lock", "Rollback", "Malformed"}
AllLockKinds == {"Locked", "NotLocked", "Ignored", "Malformed"}

InitWith(wkinds, lkinds, isos, omits, ranges, tss) ==
    \E S \in SUBSET Slots, K \in SUBSET Keys :
        /\ Cardinality(S) <= MaxWrites
        /\ Cardinality(K) <= MaxLocks
        /\ \E f \in [S -> wkinds], g \in [K -> LockChoices(lkinds)],
              iso \in isos, omit \in omits, range \in ranges, ts \in tss :
               scanner = build(Snapshot(WriteStream(S, f), LockStream(K, g)),
                               ts, iso, omit, range[1], range[2])

FromFirstKey == << Some(1), None >>
Ranges == {<< None, None >>, << Some(1), Some(NumKeys) >>} \cup
          {<< Some(k), None >> : k \in Keys}

\* The snapshots and options the scanner is built with: every write stream
\* of at most MaxWrites records and every lock stream of at most MaxLocks
\* records over the kinds of one of these families.
\*   versions under SI, with and without a lock, at every read timestamp
InitVersions ==
    InitWith({"Put", "Delete", "Rollback"}, {"Locked", "NotLocked"},
             {"SI"}, {FALSE}, {FromFirstKey}, Timestamps)
\*   locks that check_lock ignores, for every timestamp to read at instead
InitIgnored ==
    InitWith({"Put", "Delete"}, {"Ignored"}, {"SI"}, {FALSE}, {FromFirstKey}, Timestamps)
\*   every kind of lock record under RC
InitReadCommitted ==
    InitWith({"Put", "Lock"}, AllLockKinds, {"RC"}, {FALSE}, {FromFirstKey}, {1})
\*   inline and out-of-line values, present or lost, with and without omit_value
InitValues ==
    InitWith({"Put", "PutLong", "PutLost"}, {"Locked"}, {"SI"}, BOOLEAN,
             {FromFirstKey}, {MaxTs})
\*   records that do not parse
InitMalformed ==
    InitWith({"Put", "Malformed"}, {"Locked", "Malformed"}, {"SI", "RC"},
             {FALSE}, {FromFirstKey}, {MaxTs})
\*   every range, the unbounded one included
InitRanges ==
    InitWith({"Put", "Delete"}, {"Locked"}, {"SI"}, {FALSE}, Ranges, {MaxTs})

Init ==
    /\ \/ InitVersions
       \/ InitIgnored
       \/ InitReadCommitted
       \/ InitValues
       \/ InitMalformed
       \/ InitRanges
    /\ hist = << >>
    /\ log = << >>
    /\ taken = [last |-> ZeroStatistics, sum |-> ZeroStatistics, n |-> 0]
    /\ total = ZeroStatistics

ReadNext ==
    /\ Len(hist) < MaxCalls
    /\ LET r == read_next(scanner)
       IN  /\ scanner' = r.s
           /\ hist' = Append(hist, r.res)
           /\ log' = r.log
           /\ total' = AddStats(total, SubStats(r.s.statistics, scanner.statistics))
    /\ UNCHANGED taken

TakeStatistics ==
    /\ taken.n < MaxTakes
    /\ LET r == take_statistics(scanner)
       IN  /\ scanner' = r.s
           /\ taken' = [last |-> r.ret, sum |-> AddStats(taken.sum, r.ret),
                        n |-> taken.n + 1]
    /\ UNCHANGED << hist, log, total >>

Next == ReadNext \/ TakeStatistics

Spec == Init /\ [][Next]_vars

\* ------------------------------------------------- reference definitions
\* The scanner as it was built, over `snapshot` and with `omit_value`.
Rebuilt(snapshot, omit_value) ==
    build(snapshot, scanner.ts, scanner.isolation_level, omit_value,
          scanner.write_cursor.lower, scanner.write_cursor.upper)

\* What n successive read_next calls on scanner s return.
RECURSIVE Scan(_, _)
Scan(s, n) ==
    IF n = 0 THEN << >>
    ELSE LET r == read_next(s) IN << r.res >> \o Scan(r.s, n - 1)

Range(seq) == {seq[i] : i \in 1..Len(seq)}
Last(seq) == seq[Len(seq)]

\* The records the scan ranges over
WritesInRange == Range(WriteRecs(scanner))
LocksInRange == Range(LockRecs(scanner))
KeysInRange == {k \in Keys : InRange(k, scanner.write_cursor)}

LockOf(k) == {l \in LocksInRange : l.key = k}

\* effective_ts(k): the timestamp of an Ignored lock of k under SI, else ts
EffectiveTs(k) ==
    IF scanner.isolation_level = "SI" /\ \E l \in LockOf(k) : ~l.malformed /\ l.check = "Ignored"
    THEN (CHOOSE l \in LockOf(k) : TRUE).ts
    ELSE scanner.ts

\* k is blocked: under SI its lock makes check_lock yield Locked
Blocked(k) ==
    scanner.isolation_level = "SI" /\ \E l \in LockOf(k) : ~l.malformed /\ l.check = "Locked"

\* The Put and Delete records of k that a read at effective_ts(k) may see
Visible(k) ==
    {w \in WritesInRange : /\ w.key = k
                           /\ ~w.malformed
                           /\ w.write_type \in {"Put", "Delete"}
                           /\ w.commit_ts <= EffectiveTs(k)}

\* the one of them with the largest commit_ts
Newest(k) == CHOOSE w \in Visible(k) : \A x \in Visible(k) : x.commit_ts <= w.commit_ts

\* The value a read_next call returns for Put w
ReturnedValue(w) == IF scanner.omit_value THEN EmptyValue ELSE ValueOf(w.key, w.start_ts)

\* Every record parses and every out-of-line value is in the default stream.
WellFormed(snapshot) ==
    /\ \A i \in 1..Len(snapshot.write) :
          LET w == snapshot.write[i]
          IN  /\ ~w.malformed
              /\ (w.write_type = "Put" /\ w.short_value = None => w.in_default)
    /\ \A i \in 1..Len(snapshot.lock) : ~snapshot.lock[i].malformed

Finished == hist # << >> /\ Last(hist).tag = "None"

\* ------------------------------------------------------------- claims

\* C1: the user keys that successive read_next calls return with
\* Some((key, value)) are strictly ascending; no key is returned twice.
C1_StrictlyAscending ==
    \A i, j \in 1..Len(hist) :
        i < j /\ hist[i].tag = "Some" /\ hist[j].tag = "Some" => hist[i].key < hist[j].key

\* C2: every returned pair (k, v) is sound: v is the value of a Put of k with
\* commit_ts <= effective_ts(k) (empty under omit_value), and no Put or Delete
\* of k is newer than that Put and still <= effective_ts(k).
C2_Sound ==
    \A i \in 1..Len(hist) :
        hist[i].tag = "Some" =>
            \E w \in Visible(hist[i].key) :
                /\ w.write_type = "Put"
                /\ hist[i].value = ReturnedValue(w)
                /\ w = Newest(hist[i].key)

\* C3: the scan is complete: once read_next has returned None, every key in
\* range that is not blocked and whose newest visible Put or Delete is a Put
\* was returned by exactly one call, with that Put's value, and every other
\* unblocked key with write records was skipped without an error.
C3_Complete ==
    Finished /\ WellFormed(scanner.snapshot) =>
        \A k \in KeysInRange :
            (\E w \in WritesInRange : w.key = k) /\ ~Blocked(k) =>
                LET returns == {i \in 1..Len(hist) : hist[i].key = k /\ hist[i].tag # "None"}
                IN  IF Visible(k) # {} /\ Newest(k).write_type = "Put"
                    THEN /\ Cardinality(returns) = 1
                         /\ \A i \in returns :
                              hist[i] = RetSome(k, ReturnedValue(Newest(k)))
                    ELSE returns = {}

\* The snapshot without the records of user key k
WithoutKey(snapshot, k) ==
    [write |-> SelectSeq(snapshot.write, LAMBDA r : r.key # k),
     lock |-> SelectSeq(snapshot.lock, LAMBDA r : r.key # k),
     default |-> SelectSeq(snapshot.default, LAMBDA r : r.key # k)]

IsPrefix(a, b) == Len(a) <= Len(b) /\ \A i \in 1..Len(a) : a[i] = b[i]

PastKey(k) ==
    /\ lock_valid(scanner) => lock_rec(scanner).key > k
    /\ write_valid(scanner) => write_rec(scanner).key > k

\* C4: under SI a key k whose lock yields Locked gets that error from the call
\* that handles it, both cursors are past k when the call returns, and the
\* calls after it return what a scan of the data without k returns for the
\* keys greater than k.
C4_LockedKeyIsPassed ==
    /\ Finished => \A k \in KeysInRange :
                      Blocked(k) => \E i \in 1..Len(hist) : hist[i] = RetErr(k, "KeyIsLocked")
    /\ \A i \in 1..Len(hist) :
          hist[i].tag = "Err" /\ hist[i].err = "KeyIsLocked" =>
              LET k == hist[i].key
                  ref == Scan(Rebuilt(WithoutKey(scanner.snapshot, k), scanner.omit_value),
                              2 * MaxCalls)
                  later == SelectSeq(ref, LAMBDA r : r.tag = "None" \/ r.key > k)
              IN  /\ i = Len(hist) => PastKey(k)
                  /\ IsPrefix(SubSeq(hist, i + 1, Len(hist)), later)

\* C5: under RC no read_next result is a lock error, and the results are those
\* of the scanner over the same writes with an empty lock stream; so any two
\* lock streams give the same results.
C5_LocksInvisibleUnderRC ==
    scanner.isolation_level = "RC" =>
        /\ \A i \in 1..Len(hist) : hist[i].err \notin {"KeyIsLocked", "BadLock"}
        /\ hist = Scan(Rebuilt([scanner.snapshot EXCEPT !.lock = << >>],
                               scanner.omit_value), Len(hist))

\* reached: under RC a key that carries a lock (blocking or malformed) was returned
C5_Witness ==
    /\ scanner.isolation_level = "RC"
    /\ \E l \in LocksInRange : \E i \in 1..Len(hist) :
          /\ l.check \in {"Locked", "Malformed"}
          /\ hist[i].tag = "Some"
          /\ hist[i].key = l.key

Positions == << scanner.write_cursor.pos, scanner.lock_cursor.pos >>

\* C6: once read_next has returned Ok(None), every later call returns Ok(None)
\* and neither cursor moves any more.
C6_NoneIsFinal ==
    [][Finished => /\ Positions' = Positions
                   /\ hist' # hist => Last(hist').tag = "None"]_vars

\* reached: a scan that returned a pair, then None, and was called again
C6_Witness ==
    /\ Len(hist) >= 3
    /\ hist[Len(hist) - 1].tag = "None"
    /\ Last(hist).tag = "None"
    /\ \E i \in 1..Len(hist) : hist[i].tag = "Some"

\* What the scanner that differs only in omit_value returns
Twin == Scan(Rebuilt(scanner.snapshot, ~scanner.omit_value), Len(hist))

SameKeysAndErrors(a, b) ==
    /\ Len(a) = Len(b)
    /\ \A i \in 1..Len(a) : a[i].tag = b[i].tag /\ a[i].key = b[i].key /\ a[i].err = b[i].err

OmitTwinsAgree ==
    /\ SameKeysAndErrors(hist, Twin)
    /\ LET omitting == IF scanner.omit_value THEN hist ELSE Twin
       IN  \A i \in 1..Len(omitting) : omitting[i].value = EmptyValue

\* Every Put without a short value has its record in the default stream.
DefaultComplete(snapshot) ==
    \A i \in 1..Len(snapshot.write) :
        LET w == snapshot.write[i]
        IN  ~w.malformed /\ w.write_type = "Put" /\ w.short_value = None => w.in_default

NoCounterDecreases ==
    \A cf \in CFNames : \A c \in CounterNames :
        scanner'.statistics[cf][c] >= scanner.statistics[cf][c]

\* C8: no counter decreases across a read_next call; take_statistics returns
\* the counters accumulated since the previous take, zeroes every counter and
\* changes no cursor, flag or bound.
C8_Statistics ==
    [][/\ hist' # hist => NoCounterDecreases
       /\ taken' # taken =>
            /\ taken'.last = SubStats(total, taken.sum)
            /\ scanner' = [scanner EXCEPT !.statistics = ZeroStatistics]]_vars

\* reached: a second take_statistics that returned counters of calls made
\* after the first one
C8_Witness ==
    /\ taken.n = 2
    /\ taken.last.write.next > 0
    /\ taken.sum # taken.last
    /\ scanner.statistics = ZeroStatistics

\* C9: without a lower bound the first read_next does not fault; with one it
\* seeks the write cursor and the lock cursor.
C9_FirstCall ==
    hist # << >> =>
        IF scanner.write_cursor.lower = None
        THEN hist[1].tag # "Panic"
        ELSE total.write.seek >= 1 /\ total.lock.seek >= 1

KeyRecs(k) == SelectSeq(WriteRecs(scanner), LAMBDA r : r.key = k)

\* the first SEEK_BOUND records of k exist and are all newer than ts
DeepHistory(k, ts) ==
    /\ Len(KeyRecs(k)) >= SEEK_BOUND
    /\ \A j \in 1..SEEK_BOUND : KeyRecs(k)[j].commit_ts > ts

\* The version of a key that a walk over all its records finds for ts
RECURSIVE LinearWalk(_, _, _)
LinearWalk(recs, ts, j) ==
    IF j > Len(recs) THEN OkNone
    ELSE LET w == recs[j]
         IN  IF w.commit_ts > ts THEN LinearWalk(recs, ts, j + 1)
             ELSE IF w.malformed THEN Err("BadWrite")
             ELSE IF w.write_type = "Put"
             THEN IF scanner.omit_value \/ w.short_value # None \/ w.in_default
                  THEN OkSome(ReturnedValue(w))
                  ELSE Err("DefaultNotFound")
             ELSE IF w.write_type = "Delete" THEN OkNone
             ELSE LinearWalk(recs, ts, j + 1)

\* C10: get seeks exactly when the first SEEK_BOUND records of the key are all
\* newer than ts, at most once and after at most SEEK_BOUND-1 next() steps, and
\* either way it lands on the record of the key with the largest commit_ts <= ts
\* and returns what a linear walk returns.
C10_SeekFallback ==
    \A n \in 1..Len(log) :
        log[n].get_called =>
            LET it == log[n]
                recs == WriteRecs(scanner)
                target == SeekPos(recs, it.key, it.get_ts)
            IN  /\ it.get_seeks <= 1
                /\ it.get_seeks = 1 <=> DeepHistory(it.key, it.get_ts)
                /\ it.get_nexts1 <= SEEK_BOUND - 1
                /\ it.landed = IF target <= Len(recs) /\ recs[target].key = it.key
                               THEN target ELSE 0
                /\ it.result = LinearWalk(KeyRecs(it.key), it.get_ts, 1)

\* ---- the iterations of the latest call, read against the streams
\* the record at position p of the write stream / lock stream, if any
WriteAt(p) == WriteRecs(scanner)[p]
LockAt(p) == LockRecs(scanner)[p]
WriteValidAt(p) == p \in 1..Len(WriteRecs(scanner))
LockValidAt(p) == p \in 1..Len(LockRecs(scanner))

\* the write cursor / lock cursor at position p is past user key k
WritePast(p, k) == WriteValidAt(p) => WriteAt(p).key > k
LockPast(p, k) == LockValidAt(p) => LockAt(p).key > k

CodecErrors == {"BadWrite", "BadLock"}

\* C11: after a read_next call returned the error of a malformed write or lock
\* record, no later call on the scanner returns a pair for a later key.
C11_CodecErrorIsFatal ==
    \A i, j \in 1..Len(hist) :
        i < j /\ hist[i].tag = "Err" /\ hist[i].err \in CodecErrors =>
            ~(hist[j].tag = "Some" /\ hist[j].key > hist[i].key)

\* C12: every iteration of the loop of read_next leaves a cursor that was on
\* the current user key strictly past it, and the current user key strictly
\* increases from one iteration to the next.
C12_IterationsProgress ==
    /\ \A n \in 1..Len(log) :
          /\ log[n].has_write => WritePast(log[n].wpos1, log[n].key)
          /\ log[n].has_lock => LockPast(log[n].lpos1, log[n].key)
    /\ \A n \in 1..(Len(log) - 1) : log[n].key < log[n + 1].key

\* C13: when move_write_cursor_to_next_user_key(current_user_key) has returned,
\* the write cursor is invalid or on a record of a user key greater than
\* current_user_key, whatever commit_ts the records of the key carry.
C13_MovedPastKey ==
    \A n \in 1..Len(log) : log[n].moved => WritePast(log[n].wpos1, log[n].key)

\* C14: when get is called for a user key the write cursor is valid and on the
\* record of that key with the largest commit_ts; at the top of every
\* iteration a valid write cursor is on the first record of its user key.
C14_CursorOnNewestCommit ==
    \A n \in 1..Len(log) :
        LET p == log[n].wpos0
        IN  /\ log[n].get_called => WriteValidAt(p) /\ WriteAt(p).key = log[n].key
            /\ WriteValidAt(p) =>
                  \A q \in 1..Len(WriteRecs(scanner)) :
                      WriteAt(q).key = WriteAt(p).key => q >= p
\* the smaller of the user keys under the cursors that are valid
MinCursorKey(wpos, lpos) ==
    Min({WriteAt(p).key : p \in {q \in {wpos} : WriteValidAt(q)}} \cup
        {LockAt(p).key : p \in {q \in {lpos} : LockValidAt(q)}})

BothInvalid == ~write_valid(scanner) /\ ~lock_valid(scanner)

\* C15: in every iteration the current user key is the minimum of the keys of
\* the valid cursors, has_write / has_lock say which cursors are valid and on
\* that key, and read_next returns Ok(None) exactly when both cursors are
\* invalid at the top of an iteration.
C15_Selection ==
    /\ \A n \in 1..Len(log) :
          LET it == log[n]
          IN  /\ WriteValidAt(it.wpos0) \/ LockValidAt(it.lpos0)
              /\ it.key = MinCursorKey(it.wpos0, it.lpos0)
              /\ it.has_write <=> WriteValidAt(it.wpos0) /\ WriteAt(it.wpos0).key = it.key
              /\ it.has_lock <=> LockValidAt(it.lpos0) /\ LockAt(it.lpos0).key = it.key
    /\ hist # << >> /\ Last(hist).tag # "Panic" =>
          (Last(hist).tag = "None" <=>
              BothInvalid /\ (log = << >> \/ Last(log).result.kind = "None"))

\* reached: a call that selected a lock without a write while the write
\* cursor was on a later key, then that key, then returned None
C15_Witness ==
    /\ Len(log) >= 2
    /\ log[1].has_lock /\ ~log[1].has_write /\ WriteValidAt(log[1].wpos0)
    /\ log[2].has_write /\ ~log[2].has_lock
    /\ Last(hist).tag = "None"

\* C16: an iteration with has_lock advances the lock cursor by exactly one
\* record, under SI for Locked, NotLocked and Ignored and under RC; without
\* has_lock the lock cursor stays, without has_write the write cursor stays.
C16_CursorFrame ==
    \A n \in 1..Len(log) :
        LET it == log[n]
        IN  /\ it.has_lock =>
                  (scanner.isolation_level = "RC" \/ ~LockAt(it.lpos0).malformed
                      => it.lpos1 = it.lpos0 + 1)
            /\ ~it.has_lock => it.lpos1 = it.lpos0
            /\ ~it.has_write => it.wpos1 = it.wpos0

\* reached: under SI a lock that blocks a key without writes was stepped over
\* while the write cursor stood on a later key
C16_Witness ==
    /\ scanner.isolation_level = "SI"
    /\ \E n \in 1..Len(log) :
          /\ log[n].has_lock /\ ~log[n].has_write
          /\ LockAt(log[n].lpos0).check = "Locked"
          /\ WriteValidAt(log[n].wpos0)
          /\ log[n].lpos1 = log[n].lpos0 + 1
\* the iteration handled a key whose lock makes check_lock yield Locked
LockedIteration(it) ==
    /\ scanner.isolation_level = "SI"
    /\ it.has_lock
    /\ ~LockAt(it.lpos0).malformed
    /\ LockAt(it.lpos0).check = "Locked"

\* C17: when check_lock yields Locked for a key that has write records, get is
\* not invoked for the key, no write record is parsed, the default cursor is
\* neither created nor moved, and the write cursor is past the key when the
\* error is returned.
C17_LockedSuppressesLookup ==
    \A n \in 1..Len(log) :
        LET it == log[n]
        IN  LockedIteration(it) /\ it.has_write =>
                /\ ~it.get_called
                /\ it.processed = 0
                /\ it.default1 = it.default0
                /\ n = Len(log)
                /\ Last(hist) = RetErr(it.key, "KeyIsLocked")
                /\ WritePast(it.wpos1, it.key)
\* The positions from where get's final loop started on, up to the first Put,
\* Delete or unparsable record: the last of them is the record get resolved.
ResolvedPos(it) ==
    Min({q \in it.landed..Len(WriteRecs(scanner)) :
            WriteAt(q).malformed \/ WriteAt(q).write_type \in {"Put", "Delete"}}
        \cup {Len(WriteRecs(scanner)) + 1})

\* the iteration resolved a Put of its key that has no short value
ResolvedLongPut(it) ==
    /\ it.get_called
    /\ it.landed # 0
    /\ WriteValidAt(ResolvedPos(it))
    /\ LET w == WriteAt(ResolvedPos(it))
       IN  w.key = it.key /\ ~w.malformed /\ w.write_type = "Put" /\ w.short_value = None

\* C18: the default cursor is created by the first resolution of a Put
\* without a short value under omit_value = false and not before, never under
\* omit_value = true, and is never replaced; once it exists lower_bound and
\* upper_bound are None and is_started is true.
C18_DefaultCursorLifecycle ==
    /\ \A n \in 1..Len(log) :
          LET it == log[n]
          IN  IF it.default0 = None
              THEN it.default1 # None <=> ResolvedLongPut(it) /\ ~scanner.omit_value
              ELSE /\ it.default1 # None
                   /\ it.default1[1].lower = it.default0[1].lower
                   /\ it.default1[1].upper = it.default0[1].upper
    /\ scanner.default_cursor # None =>
          /\ ~scanner.omit_value
          /\ scanner.lower_bound = None /\ scanner.upper_bound = None
          /\ scanner.is_started
          /\ scanner.default_cursor[1].lower = scanner.write_cursor.lower
          /\ scanner.default_cursor[1].upper = scanner.write_cursor.upper

\* reached: two values were loaded from the default stream by two calls
C18_Witness ==
    /\ scanner.default_cursor # None
    /\ total.data.processed >= 2
    /\ Len(hist) >= 2
    /\ hist[1].tag = "Some" /\ hist[2].tag = "Some"
\* C19: a key whose lock makes check_lock yield Ignored(new_ts) under SI is
\* resolved with new_ts, every other key with the ts the scanner was built
\* with.
C19_IgnoredLockTs ==
    \A n \in 1..Len(log) :
        log[n].get_called => log[n].get_ts = EffectiveTs(log[n].key)

ResolverErrors == {"BadWrite", "DefaultNotFound"}

\* C20: under SI a lock record that does not parse makes read_next return
\* before either cursor moved, and the next call returns the same error for
\* the same key; an error of get is returned with the write cursor past the
\* current user key, and the next call goes on with a later key.
C20_ErrorPaths ==
    /\ \A n \in 1..Len(log) :
          LET it == log[n]
          IN  /\ it.early => it.wpos1 = it.wpos0 /\ it.lpos1 = it.lpos0
              /\ it.result.err \in ResolverErrors => WritePast(it.wpos1, it.key)
    /\ \A i \in 1..(Len(hist) - 1) :
          /\ hist[i].err = "BadLock" => hist[i + 1] = hist[i]
          /\ hist[i].err \in ResolverErrors =>
                hist[i + 1].tag = "None" \/ hist[i + 1].key > hist[i].key

====
